---------------------------- MODULE Spec2Model ----------------------------
(***************************************************************************)
(* Model of the query execution engine of mcp-db-bridge                    *)
(* (src/src/db/index.ts) over its three adapters (MySQL, PostgreSQL,       *)
(* SQLite).  A call is an async function; every `await` is a point where   *)
(* another call may run.  One action models one resumed segment: the       *)
(* awaited backend operation completes (or fails) and the code runs on     *)
(* synchronously up to the next await, through catch and finally blocks.   *)
(***************************************************************************)
EXTENDS Naturals, Integers, Sequences, FiniteSets, TLC

\* ------------------------------------------------------------------ bounds
NumCalls == 2        \* call slots that may be in flight together
PoolSize == 1        \* connections of a pooled backend (connectionLimit)
MaxFaults == 3       \* failing backend operations per call, sequential workload
MaxConcFaults == 1   \* failing backend operations per run, concurrent workload
MaxRows == 1         \* rows in a result a backend returns
MaxOps == 3          \* method calls made on a connection on its own

Calls == 1..NumCalls
Conns == 1..PoolSize

\* ------------------------------------------------------------- vocabulary
DatabaseTypes == {"mysql", "postgresql", "sqlite"}
DDLKinds == {"create", "alter", "drop", "truncate"}
WriteKinds == {"insert", "update", "delete"} \cup DDLKinds
Operations == {"insert", "update", "delete", "ddl"}
NoSchema == "none"
Schemas == {NoSchema, "test_db", "other_db"}
Functions == {"executeQuery", "executeWriteQuery", "executeReadOnlyQuery"}

\* Classifications (getQueryTypes, extractSchemaFromQuery) offered to a call.
KindSets ==
  { {"select"}, {"insert"}, {"update"}, {"delete"}, {"create"}, {"drop"},
    {"select", "insert"}, {"insert", "update"}, {"delete", "drop"}, {"other"} }
\* A statement the classifier cannot parse has no classification.
Unparsed == [kinds |-> {}, schema |-> NoSchema, parses |-> FALSE]
Statements == [kinds : KindSets, schema : Schemas, parses : {TRUE}] \cup {Unparsed}
\* The calls made concurrently: one through each function body.
ConcInvocations ==
  { [fn |-> "executeQuery",
      stmt |-> [kinds |-> {"select"}, schema |-> NoSchema, parses |-> TRUE]],
    [fn |-> "executeWriteQuery",
      stmt |-> [kinds |-> {"insert"}, schema |-> NoSchema, parses |-> TRUE]],
    [fn |-> "executeReadOnlyQuery",
      stmt |-> [kinds |-> {"select"}, schema |-> NoSchema, parses |-> TRUE]] }
NoStatement == [kinds |-> {}, schema |-> NoSchema, parses |-> TRUE]
\* The statements a sequential caller passes to each function; executeQuery
\* never looks at the statement's classification.
StatementsOf(f) ==
  IF f = "executeQuery"
  THEN {s \in Statements : s.kinds \in {{"select"}, {"insert"}} /\ s.schema = NoSchema}
  ELSE Statements

\* Permission policies offered to a process (ALLOW_*_OPERATION, SCHEMA_*_PERMISSIONS).
AllOps(b) == [o \in Operations |-> b]
NoOverride == [s \in Schemas |-> [o \in Operations |-> "unset"]]
GlobalPolicies ==
  { AllOps(FALSE), AllOps(TRUE),
    [o \in Operations |-> o \in {"update", "delete"}] }
SchemaPolicies ==
  { NoOverride,
    [NoOverride EXCEPT !["test_db"]["insert"] = "true"],
    [NoOverride EXCEPT !["test_db"]["delete"] = "false",
                       !["other_db"]["ddl"] = "true"] }

\* The process environment: a variable is unset, empty, blank or a name.
Undefined == "<undefined>"
Names == {Undefined, "", " ", "app"}
Identifiers == DatabaseTypes \cup {"oracle", "MySQL"}
Environments ==
  [DB_TYPE : Identifiers \cup {Undefined, ""}, DB_NAME : Names, MYSQL_DB : Names,
   POSTGRESQL_DB : Names, SQLITE_DB : {Undefined, "app"}]

VARIABLES
  env,                \* process.env
  phase,              \* how far the modules are loaded: start, configured, loaded, failed
  adapter,            \* the type of the adapter created at module load
  database,           \* mcpConfig.database.database
  rawResult,          \* the value last passed to adapter.normalizeResult
  normalized,         \* what adapter.normalizeResult made of it
  response,           \* the write-path response last formatted from a normalized result
  dbType,             \* DB_TYPE
  readOnlyMode,       \* DB_READ_ONLY_MODE
  disableReadOnlyTx,  \* MYSQL_DISABLE_READ_ONLY_TRANSACTIONS
  globalAllow,        \* ALLOW_<OP>_OPERATION
  schemaPerm,         \* SCHEMA_<OP>_PERMISSIONS
  isMultiDbMode,      \* isMultiDbMode: no database is bound
  multiDbWriteMode,   \* MULTI_DB_WRITE_MODE
  poolPromise,        \* the module-level poolPromise
  createPoolCalls,    \* number of adapter.createPool invocations
  conn,               \* the backend connections
  pc,                 \* where each call is suspended
  fn,                 \* the function each call entered through
  stmt,               \* the classification of each call's statement
  path,               \* the function body each call runs: q, w or r
  pool,               \* the pool each call received from getPool
  connection,         \* each call's `connection` local
  error,              \* each call's caught `error`
  result,             \* what each call gave its caller
  trace,              \* the backend operations each call invoked, in order
  effect,             \* what became of the statement each call ran
  budget              \* failing operations still allowed

\* What no step of a call changes.
config == <<env, phase, adapter, database, rawResult, normalized, response,
            dbType, readOnlyMode, disableReadOnlyTx, globalAllow, schemaPerm,
            isMultiDbMode, multiDbWriteMode>>
vars == <<env, phase, adapter, database, rawResult, normalized, response,
          dbType, readOnlyMode, disableReadOnlyTx, globalAllow, schemaPerm,
          isMultiDbMode, multiDbWriteMode,
          poolPromise, createPoolCalls, conn, pc, fn, stmt, path, pool,
          connection, error, result, trace, effect, budget>>


\* ------------------------------------------------------------ configuration
\* A string of the environment used as a condition, and `a || b`.
Truthy(v) == v \notin {Undefined, ""}

Or(a, b) == IF Truthy(a) THEN a ELSE b

trim(v) == IF v = " " THEN "" ELSE v

\* DB_TYPE: process.env.DB_TYPE || "mysql", cast to DatabaseType unchecked.
DB_TYPE(e) == Or(e.DB_TYPE, "mysql")

\* isMultiDbMode: for MySQL and PostgreSQL, whether the backend's own database
\* variable is unset or blank.
isMultiDbModeOf(t, e) ==
  IF t \in {"mysql", "postgresql"}
  THEN LET dbVar == IF t = "mysql" THEN e.MYSQL_DB ELSE e.POSTGRESQL_DB
       IN ~Truthy(dbVar) \/ trim(dbVar) = ""
  ELSE FALSE

\* getConnectionConfig(): the database the pool is bound to.
getConnectionConfig(t, e) ==
  [database |->
     CASE t = "mysql" -> Or(e.DB_NAME, Or(e.MYSQL_DB, Undefined))
       [] t = "postgresql" -> Or(e.DB_NAME, Or(e.POSTGRESQL_DB, Undefined))
       [] t = "sqlite" -> Or(e.DB_NAME, Or(e.SQLITE_DB, ":memory:"))
       [] OTHER -> Undefined]

\* ------------------------------------------------------------ adapter factory
NoAdapter == "none"
MySQLAdapter == [type |-> "mysql"]
PostgreSQLAdapter == [type |-> "postgresql"]
SQLiteAdapter == [type |-> "sqlite"]

createAdapterDefaulting(type) ==
  CASE type = "postgresql" -> [threw |-> FALSE, type |-> PostgreSQLAdapter.type]
    [] type = "sqlite" -> [threw |-> FALSE, type |-> SQLiteAdapter.type]
    [] OTHER -> [threw |-> FALSE, type |-> MySQLAdapter.type]

\* AdapterFactory.createAdapter(type): the adapter it returns, or that it threw.
createAdapter(type) ==
  CASE type = "mysql" -> [threw |-> FALSE, type |-> MySQLAdapter.type]
    [] type = "postgresql" -> [threw |-> FALSE, type |-> PostgreSQLAdapter.type]
    [] type = "sqlite" -> [threw |-> FALSE, type |-> SQLiteAdapter.type]
    [] OTHER -> [threw |-> TRUE, type |-> NoAdapter]

\* ------------------------------------------------------------ observations
Ev(op, ok) == [op |-> op, ok |-> ok]
NoResult == [kind |-> "none", isError |-> FALSE, text |-> "", err |-> "none", schema |-> ""]
Envelope(isErr, text, err, schema) ==
  [kind |-> "envelope", isError |-> isErr, text |-> text, err |-> err, schema |-> schema]
Thrown(err) == [kind |-> "throw", isError |-> TRUE, text |-> "", err |-> err, schema |-> ""]
Value == [kind |-> "value", isError |-> FALSE, text |-> "rows", err |-> "none", schema |-> ""]

\* ---------------------------------------------------------------- adapters
IdleConnection ==
  [owner |-> 0, txOpen |-> FALSE, readOnly |-> FALSE, inTransaction |-> FALSE]

supportsReadOnlyModeAll(t) == TRUE

\* adapter.supportsReadOnlyMode()
supportsReadOnlyMode(t) == t # "sqlite"

\* connection.beginTransaction(): the connection after the call.
beginTransaction(t, k, ok) ==
  IF t = "sqlite"
  THEN IF k.inTransaction THEN k
       ELSE IF ok THEN [k EXCEPT !.txOpen = TRUE, !.inTransaction = TRUE] ELSE k
  ELSE IF ok THEN [k EXCEPT !.txOpen = TRUE] ELSE k

\* connection.commit() and connection.rollback() close the transaction alike;
\* what becomes of the statement's effects is not part of the connection state.
endTransaction(t, k, ok) ==
  IF t = "sqlite"
  THEN IF ~k.inTransaction THEN k
       ELSE IF ok THEN [k EXCEPT !.txOpen = FALSE, !.inTransaction = FALSE] ELSE k
  ELSE IF ok
       THEN [k EXCEPT !.txOpen = FALSE,
                      !.readOnly = IF t = "postgresql" THEN FALSE ELSE @]
       ELSE k

commit(t, k, ok) == endTransaction(t, k, ok)

rollback(t, k, ok) == endTransaction(t, k, ok)

\* adapter.setReadOnly / unsetReadOnly.  MySQL sets the session default; the
\* PostgreSQL statement only changes the transaction it is issued in; SQLite
\* only logs.
setReadOnly(t, k, ok) ==
  IF ~ok \/ t = "sqlite" THEN k
  ELSE IF t = "mysql" \/ k.txOpen THEN [k EXCEPT !.readOnly = TRUE] ELSE k

unsetReadOnly(t, k, ok) ==
  IF ~ok \/ t = "sqlite" THEN k
  ELSE IF t = "mysql" \/ k.txOpen THEN [k EXCEPT !.readOnly = FALSE] ELSE k

\* An operation that returns before it reaches the backend cannot fail.
CanFail(t, op, k) ==
  CASE op = "beginTransaction" -> ~(t = "sqlite" /\ k.inTransaction)
    [] op \in {"commit", "rollback"} -> ~(t = "sqlite" /\ ~k.inTransaction)
    [] op \in {"setReadOnly", "unsetReadOnly", "getConnection"} -> t # "sqlite"
    [] OTHER -> TRUE

releaseKeeping(t, cn, k) == cn

\* connection.release(): back to the pool; nothing on SQLite.
release(t, cn, k) ==
  IF t = "sqlite" THEN cn ELSE [cn EXCEPT ![k].owner = 0]

AvailableAny(t, cn) == Conns

\* pool.getConnection(): the connections it may hand out now; of several free
\* connections in the same state the first stands for all.
Available(t, cn) ==
  IF t = "sqlite" THEN {1}
  ELSE {k \in Conns : /\ cn[k].owner = 0
                       /\ \A j \in Conns : j < k => cn[j] # cn[k]}

acquire(t, cn, k, c) ==
  IF t = "sqlite" THEN cn ELSE [cn EXCEPT ![k].owner = c]

\* ---------------------------------------------------------- normalizeResult
\* The values a caller may pass: primitives, arrays of rows, and objects that
\* carry any of the fields the adapters look for.
FieldNames ==
  {"affectedRows", "insertId", "changedRows", "rows", "rowCount", "changes",
   "lastInsertRowid"}
Rows(n) == [i \in 1..n |-> "row"]
RowSequences == {Rows(n) : n \in 0..MaxRows}
Raw(type, truthy, items, has) ==
  [type |-> type, truthy |-> truthy, items |-> items, has |-> has]
RawResults ==
  {Raw("undefined", FALSE, <<>>, {}), Raw("null", FALSE, <<>>, {})}
    \cup {Raw(t, b, <<>>, {}) : t \in {"boolean", "number", "string"}, b \in BOOLEAN}
    \cup {Raw("array", TRUE, r, {}) : r \in RowSequences}
    \cup {Raw("object", TRUE, <<>>, h) : h \in SUBSET FieldNames}
    \cup {Raw("object", TRUE, Rows(MaxRows), h) :
            h \in {g \in SUBSET FieldNames : "rows" \in g}}
NoRaw == Raw("none", FALSE, <<>>, {})

\* The value an object holds in a numeric field.
FieldValue(f) ==
  CASE f = "affectedRows" -> 2 [] f = "insertId" -> 7 [] f = "changedRows" -> 1
    [] f = "rowCount" -> 3 [] f = "changes" -> 4 [] OTHER -> 9

\* result.f ?? 0
OrZero(r, f) == IF f \in r.has THEN FieldValue(f) ELSE 0

\* A NormalizedResult: its rows and the optional fields it has, or the
\* TypeError raised instead.
Normalized(rows, has, a, i, c) ==
  [threw |-> FALSE, rows |-> rows, has |-> has,
   affectedRows |-> a, insertId |-> i, changedRows |-> c]
RowsOnly(rows) == Normalized(rows, {}, 0, 0, 0)
TypeError == [threw |-> TRUE, rows |-> <<>>, has |-> {},
              affectedRows |-> 0, insertId |-> 0, changedRows |-> 0]
AckFields == {"affectedRows", "insertId", "changedRows"}

\* adapter.normalizeResult(result) of the adapter of type t.  `!result` takes
\* every falsy value; the `in` operator raises a TypeError on a primitive.
normalizeResult(t, r) ==
  IF ~r.truthy THEN RowsOnly(<<>>)
  ELSE IF r.type \notin {"array", "object"} THEN TypeError
  ELSE CASE t = "mysql" ->
              IF r.has \cap {"affectedRows", "insertId", "changedRows"} # {}
              THEN Normalized(<<>>, AckFields, OrZero(r, "affectedRows"),
                              OrZero(r, "insertId"), OrZero(r, "changedRows"))
              ELSE IF r.type = "array" THEN RowsOnly(r.items)
              ELSE RowsOnly(<<>>)
         [] t = "postgresql" ->
              IF "rows" \in r.has
              THEN Normalized(r.items, {"affectedRows"}, OrZero(r, "rowCount"), 0, 0)
              ELSE IF r.type = "array" THEN RowsOnly(r.items)
              ELSE RowsOnly(<<>>)
         [] OTHER ->
              IF r.has \cap {"changes", "lastInsertRowid"} # {}
              THEN Normalized(<<>>, AckFields, OrZero(r, "changes"),
                              OrZero(r, "lastInsertRowid"), OrZero(r, "changes"))
              ELSE IF r.type = "array" THEN RowsOnly(r.items)
              ELSE RowsOnly(<<>>)

\* ----------------------------------------------------------------- getPool
UnsetPromise == [id |-> 0, state |-> "unset"]

getPoolUnguarded(pp, n, ok) ==
  [poolPromise |-> [id |-> n + 1, state |-> IF ok THEN "fulfilled" ELSE "rejected"],
   created |-> 1]

getPoolRetrying(pp, n, ok) ==
  IF pp.state \in {"unset", "rejected"}
  THEN [poolPromise |-> [id |-> n + 1, state |-> IF ok THEN "fulfilled" ELSE "rejected"],
        created |-> 1]
  ELSE [poolPromise |-> pp, created |-> 0]

\* getPool(): the promise it leaves in poolPromise, and whether it called
\* adapter.createPool (n pools were created before; ok: this creation succeeds).
getPool(pp, n, ok) ==
  IF pp.state = "unset"
  THEN [poolPromise |-> [id |-> n + 1, state |-> IF ok THEN "fulfilled" ELSE "rejected"],
        created |-> 1]
  ELSE [poolPromise |-> pp, created |-> 0]

\* -------------------------------------------------------------- permissions
isAllowedForSchemaGlobalOnly(o, schema) == globalAllow[o]

\* The permission evaluator: the override set for the schema, else the global
\* flag (also when the statement names no schema).
isAllowedForSchema(o, schema) ==
  IF schema # NoSchema /\ schemaPerm[schema][o] # "unset"
  THEN schemaPerm[schema][o] = "true"
  ELSE globalAllow[o]

\* ------------------------------------------------- executeReadOnlyQuery gate
\* await getQueryTypes(sql): the kinds of the statement, or a rejection.
getQueryTypes(s) == [ok |-> s.parses, kinds |-> s.kinds]

HasOp(kinds, o) ==
  IF o = "ddl" THEN kinds \cap DDLKinds # {} ELSE o \in kinds

isWriteOperationDML(kinds) == kinds \cap {"insert", "update", "delete"} # {}

isWriteOperationWithSelect(kinds) == kinds \cap (WriteKinds \cup {"select"}) # {}

\* The DB_READ_ONLY_MODE gate's test over the seven write kinds.
isWriteOperation(kinds) == kinds \cap WriteKinds # {}

OpOrder == <<"insert", "update", "delete", "ddl">>

DeniedOpNever(kinds, schema) == "none"

DeniedOpFirstOnly(kinds, schema) ==
  LET present == {i \in 1..4 : HasOp(kinds, OpOrder[i])}
      first == CHOOSE i \in present : \A j \in present : i <= j
  IN IF present = {} \/ isAllowedForSchema(OpOrder[first], schema) THEN "none"
     ELSE OpOrder[first]

DeniedOpLast(kinds, schema) ==
  LET denied == {i \in 1..4 : HasOp(kinds, OpOrder[i])
                              /\ ~isAllowedForSchema(OpOrder[i], schema)}
  IN IF denied = {} THEN "none"
     ELSE OpOrder[CHOOSE i \in denied : \A j \in denied : i >= j]

\* The first permission check that returns a denial, in source order.
DeniedOp(kinds, schema) ==
  LET denied == {i \in 1..4 : HasOp(kinds, OpOrder[i])
                              /\ ~isAllowedForSchema(OpOrder[i], schema)}
  IN IF denied = {} THEN "none"
     ELSE OpOrder[CHOOSE i \in denied : \A j \in denied : i <= j]

WriteAllowedUnmixed(kinds, schema) ==
  /\ "select" \notin kinds
  /\ \E o \in Operations : HasOp(kinds, o) /\ isAllowedForSchema(o, schema)

\* The test that sends a statement to executeWriteQuery.
WriteAllowed(kinds, schema) ==
  \E o \in Operations : HasOp(kinds, o) /\ isAllowedForSchema(o, schema)

shouldUseReadOnly == supportsReadOnlyMode(dbType) /\ ~disableReadOnlyTx

SchemaName(schema) == IF schema = NoSchema THEN "default" ELSE schema

WriteSummaryUpdateFirst(kinds) ==
  IF "update" \in kinds THEN "Update successful"
  ELSE IF "insert" \in kinds THEN "Insert successful"
  ELSE IF "delete" \in kinds THEN "Delete successful"
  ELSE IF kinds \cap DDLKinds # {} THEN "DDL operation successful"
  ELSE "rows"

WriteSummary(kinds) ==
  IF "insert" \in kinds THEN "Insert successful"
  ELSE IF "update" \in kinds THEN "Update successful"
  ELSE IF "delete" \in kinds THEN "Delete successful"
  ELSE IF kinds \cap DDLKinds # {} THEN "DDL operation successful"
  ELSE "rows"

\* normalized.f ?? 0
Reported(n, f) == IF f \in n.has THEN n[f] ELSE 0

\* The numbers each summary reports.
Shown(summary) ==
  CASE summary = "Insert successful" -> {"affectedRows", "insertId"}
    [] summary = "Update successful" -> {"affectedRows", "changedRows"}
    [] summary = "Delete successful" -> {"affectedRows"}
    [] OTHER -> {}

\* responseText of executeWriteQuery: the summary, the schema it names, the
\* numbers it reports, or the rows as JSON.
responseText(kinds, schema, n) ==
  LET summary == WriteSummary(kinds)
      number(f) == IF f \in Shown(summary) THEN Reported(n, f) ELSE 0
  IN [summary |-> summary,
      schema |-> IF summary = "rows" THEN "" ELSE SchemaName(schema),
      affectedRows |-> number("affectedRows"),
      insertId |-> number("insertId"),
      changedRows |-> number("changedRows"),
      rows |-> IF summary = "rows" THEN n.rows ELSE <<>>]

\* The text of the envelope the DB_READ_ONLY_MODE gate returns.
ReadOnlyModeText == "Write operations are disabled by DB_READ_ONLY_MODE"

DenialText(o) ==
  CASE o = "insert" -> "INSERT operations are not allowed; SCHEMA_INSERT_PERMISSIONS"
    [] o = "update" -> "UPDATE operations are not allowed; SCHEMA_UPDATE_PERMISSIONS"
    [] o = "delete" -> "DELETE operations are not allowed; SCHEMA_DELETE_PERMISSIONS"
    [] OTHER -> "DDL operations are not allowed; SCHEMA_DDL_PERMISSIONS"

\* ------------------------------------------------------------------- state
\* The environments a process is started in.  The gate of executeReadOnlyQuery
\* reads the policy and never the adapter, and the transaction handling reads
\* the adapter and never the policy: every adapter setting is taken with the
\* permissive policy, and every policy with MySQL.  isMultiDbMode is false on
\* SQLite, and MULTI_DB_WRITE_MODE is read only in multi-database mode.
BackendConfigs ==
  { e \in [dbType : DatabaseTypes, readOnlyMode : BOOLEAN,
           disableReadOnlyTx : BOOLEAN, globalAllow : {AllOps(TRUE)},
           schemaPerm : {NoOverride}, isMultiDbMode : {FALSE},
           multiDbWriteMode : {FALSE}] :
      e.dbType = "sqlite" => ~e.disableReadOnlyTx }

PolicyConfigs ==
  { e \in [dbType : {"mysql"}, readOnlyMode : BOOLEAN,
           disableReadOnlyTx : {FALSE}, globalAllow : GlobalPolicies,
           schemaPerm : SchemaPolicies, isMultiDbMode : BOOLEAN,
           multiDbWriteMode : BOOLEAN] :
      e.multiDbWriteMode => e.isMultiDbMode }

\* DB_TYPE is not validated by the configuration: it may name no adapter.
UnknownConfigs ==
  [dbType : Identifiers \ DatabaseTypes, readOnlyMode : {FALSE},
   disableReadOnlyTx : {FALSE}, globalAllow : {AllOps(TRUE)},
   schemaPerm : {NoOverride}, isMultiDbMode : {FALSE}, multiDbWriteMode : {FALSE}]

Configurations == BackendConfigs \cup PolicyConfigs \cup UnknownConfigs

\* An environment that gives configuration e.
EnvFor(e) ==
  LET bound == IF e.isMultiDbMode THEN Undefined ELSE "app"
  IN [DB_TYPE |-> e.dbType, DB_NAME |-> Undefined,
      MYSQL_DB |-> IF e.dbType = "mysql" THEN bound ELSE Undefined,
      POSTGRESQL_DB |-> IF e.dbType = "postgresql" THEN bound ELSE Undefined,
      SQLITE_DB |-> Undefined]

NoResponse ==
  [kinds |-> {}, schema |-> NoSchema, text |-> responseText({}, NoSchema, RowsOnly(<<>>))]

\* The state of every call slot, of the pool and of the adapter's callers
\* before anything was called.
Quiet ==
  /\ rawResult = NoRaw
  /\ normalized = RowsOnly(<<>>)
  /\ response = NoResponse
  /\ poolPromise = UnsetPromise
  /\ createPoolCalls = 0
  /\ conn = [k \in Conns |-> IdleConnection]
  /\ pc = [c \in Calls |-> "idle"]
  /\ fn = [c \in Calls |-> "executeQuery"]
  /\ stmt = [c \in Calls |-> NoStatement]
  /\ path = [c \in Calls |-> "none"]
  /\ pool = [c \in Calls |-> 0]
  /\ connection = [c \in Calls |-> 0]
  /\ error = [c \in Calls |-> "none"]
  /\ result = [c \in Calls |-> NoResult]
  /\ trace = [c \in Calls |-> <<>>]
  /\ effect = [c \in Calls |-> "none"]

\* The configuration is read; the engine module is not loaded yet.
Init ==
  /\ \E e \in Configurations :
       /\ env = EnvFor(e)
       /\ database = getConnectionConfig(e.dbType, EnvFor(e)).database
       /\ dbType = e.dbType
       /\ readOnlyMode = e.readOnlyMode
       /\ disableReadOnlyTx = e.disableReadOnlyTx
       /\ globalAllow = e.globalAllow
       /\ schemaPerm = e.schemaPerm
       /\ isMultiDbMode = e.isMultiDbMode
       /\ multiDbWriteMode = e.multiDbWriteMode
  /\ phase = "configured"
  /\ adapter = NoAdapter
  /\ Quiet
  /\ budget = MaxFaults

\* The engine module is loaded: the adapter is created from DB_TYPE, and an
\* error thrown by the factory ends the load.  The test of isMultiDbMode and
\* MULTI_DB_WRITE_MODE that follows only logs: readOnlyMode stays what
\* DB_READ_ONLY_MODE set.
LoadModule ==
  /\ phase = "configured"
  /\ LET a == createAdapter(dbType)
     IN /\ phase' = IF a.threw THEN "failed" ELSE "loaded"
        /\ adapter' = a.type
  /\ UNCHANGED <<env, database, rawResult, normalized, response,
                 dbType, readOnlyMode, disableReadOnlyTx, globalAllow, schemaPerm,
                 isMultiDbMode, multiDbWriteMode,
                 poolPromise, createPoolCalls, conn, pc, fn, stmt, path, pool,
                 connection, error, result, trace, effect, budget>>

\* The outcomes an awaited operation may have: it may fail while failures
\* are left in the budget and the operation reaches the backend.
Outcomes(canFail) == IF budget > 0 /\ canFail THEN BOOLEAN ELSE {TRUE}

Spend(ok) == budget' = IF ok THEN budget ELSE budget - 1

\* What the backend does with the statements run on a connection.  A statement
\* that succeeds inside an open transaction is pending until that transaction
\* ends; outside a transaction it takes effect at once.  A COMMIT or ROLLBACK
\* that reaches the backend settles every statement pending on the connection,
\* whichever call ran it.  evs are the operations one step of call c invoked.
Settled(c, evs) ==
  IF evs = <<>> \/ ~evs[1].ok THEN effect
  ELSE CASE evs[1].op = "query" ->
              [effect EXCEPT ![c] = IF conn[connection[c]].txOpen THEN "pending"
                                    ELSE "autocommit"]
         [] evs[1].op \in {"commit", "rollback"} /\ conn[connection[c]].txOpen ->
              [d \in Calls |->
                 IF effect[d] = "pending" /\ connection[d] = connection[c]
                 THEN IF evs[1].op = "commit" THEN "committed" ELSE "rolledBack"
                 ELSE effect[d]]
         [] OTHER -> effect

\* The call goes on to its next await.
Goto(c, next, cn, evs, err) ==
  /\ pc' = [pc EXCEPT ![c] = next]
  /\ conn' = cn
  /\ trace' = [trace EXCEPT ![c] = @ \o evs]
  /\ error' = [error EXCEPT ![c] = err]
  /\ effect' = Settled(c, evs)
  /\ UNCHANGED <<config, poolPromise, createPoolCalls, fn, stmt, path, pool, connection, result>>

FinallyKeeps(k) == <<>>

\* The finally block of the three functions: what it invokes for connection k.
Finally(k) == IF k # 0 THEN <<Ev("release", TRUE)>> ELSE <<>>

\* The call leaves its function through the finally block.
Return(c, res, cn, evs) ==
  LET fin == Finally(connection[c])
  IN /\ pc' = [pc EXCEPT ![c] = "done"]
     /\ result' = [result EXCEPT ![c] = res]
     /\ conn' = IF fin # <<>> THEN release(dbType, cn, connection[c]) ELSE cn
     /\ trace' = [trace EXCEPT ![c] = @ \o evs \o fin]
     /\ error' = [error EXCEPT ![c] = "none"]
     /\ effect' = Settled(c, evs)
     /\ UNCHANGED <<config, poolPromise, createPoolCalls, fn, stmt, path, pool, connection>>


\* ------------------------------------------------------------------ calls
\* A caller invokes one of the functions the loaded module exports.
Invoke(c, f, s) ==
  /\ phase = "loaded"
  /\ pc[c] = "idle"
  /\ pc' = [pc EXCEPT ![c] = "entry"]
  /\ fn' = [fn EXCEPT ![c] = f]
  /\ stmt' = [stmt EXCEPT ![c] = s]
  /\ UNCHANGED <<config, poolPromise, createPoolCalls, conn, path, pool,
                 connection, error, result, trace, effect>>

\* The functions a sequential caller invokes: executeQuery and
\* executeWriteQuery read no policy and are called under the permissive one.
FunctionsCalled ==
  IF globalAllow = AllOps(TRUE) /\ schemaPerm = NoOverride /\ ~isMultiDbMode
  THEN Functions
  ELSE {"executeReadOnlyQuery"}

\* ... while no other call is in flight (each call is awaited before the
\* next is made); with every slot free the call takes the first.
StartSeq(c) ==
  /\ \A d \in Calls : pc[d] = "idle" /\ c <= d
  /\ \E f \in FunctionsCalled : \E s \in StatementsOf(f) : Invoke(c, f, s)
  /\ budget' = MaxFaults

\* ... whatever else is in flight; the call takes the first free slot.
StartConc(c) ==
  /\ \A d \in Calls : d < c => pc[d] # "idle"
  /\ \E i \in ConcInvocations : Invoke(c, i.fn, i.stmt)
  /\ UNCHANGED budget

\* The caller takes the outcome of a finished call; the slot is free again.
Collect(c) ==
  /\ pc[c] = "done"
  /\ pc' = [pc EXCEPT ![c] = "idle"]
  /\ fn' = [fn EXCEPT ![c] = "executeQuery"]
  /\ stmt' = [stmt EXCEPT ![c] = NoStatement]
  /\ path' = [path EXCEPT ![c] = "none"]
  /\ pool' = [pool EXCEPT ![c] = 0]
  /\ connection' = [connection EXCEPT ![c] = 0]
  /\ error' = [error EXCEPT ![c] = "none"]
  /\ result' = [result EXCEPT ![c] = NoResult]
  /\ trace' = [trace EXCEPT ![c] = <<>>]
  /\ effect' = [effect EXCEPT ![c] = "none"]
  /\ UNCHANGED <<config, poolPromise, createPoolCalls, conn, budget>>

\* `await getPool()`, first half: getPool() runs synchronously.
CallGetPool(c, p) ==
  \E ok \in Outcomes(poolPromise.state = "unset") :
    LET g == getPool(poolPromise, createPoolCalls, ok)
    IN /\ poolPromise' = g.poolPromise
       /\ createPoolCalls' = createPoolCalls + g.created
       /\ Spend(ok)
       /\ path' = [path EXCEPT ![c] = p]
       /\ pc' = [pc EXCEPT ![c] = "awaitPool"]
       /\ UNCHANGED <<config, conn, fn, stmt, pool, connection, error, result, trace,
                      effect>>

\* executeQuery and executeWriteQuery, up to `await getPool()`.
Enter(c) ==
  /\ pc[c] = "entry"
  /\ fn[c] # "executeReadOnlyQuery"
  /\ CallGetPool(c, IF fn[c] = "executeQuery" THEN "q" ELSE "w")

\* executeReadOnlyQuery, up to its first return or `await getPool()`: the
\* DB_READ_ONLY_MODE gate, the four permission checks, the choice of path.
Decide(c) ==
  /\ pc[c] = "entry"
  /\ fn[c] = "executeReadOnlyQuery"
  /\ LET queryTypes == getQueryTypes(stmt[c])
         kinds == queryTypes.kinds
         schema == stmt[c].schema
         denied == DeniedOp(kinds, schema)
     IN IF ~queryTypes.ok
        THEN /\ Return(c, Thrown("E_getQueryTypes"), conn, <<>>)
             /\ UNCHANGED budget
        ELSE IF readOnlyMode /\ isWriteOperation(kinds)
        THEN /\ Return(c, Envelope(TRUE, ReadOnlyModeText, "none", ""), conn, <<>>)
             /\ UNCHANGED budget
        ELSE IF denied # "none"
        THEN /\ Return(c, Envelope(TRUE, DenialText(denied), "none", SchemaName(schema)),
                       conn, <<>>)
             /\ UNCHANGED budget
        ELSE IF WriteAllowed(kinds, schema)
        THEN CallGetPool(c, "w")
        ELSE CallGetPool(c, "r")

FailRethrows(c, err, evs) == Return(c, Thrown(err), conn, evs)

\* What a function does with an error caught before it holds a connection:
\* executeQuery rethrows, executeWriteQuery returns an envelope, the read path
\* finds no connection to clean up and rethrows.
Fail(c, err, evs) ==
  IF path[c] = "w"
  THEN Return(c, Envelope(TRUE, "Database connection error", err, ""), conn, evs)
  ELSE Return(c, Thrown(err), conn, evs)

\* `await getPool()`, second half: the promise settles for this caller.
AwaitPool(c) ==
  /\ pc[c] = "awaitPool"
  /\ poolPromise.state # "unset"
  /\ UNCHANGED budget
  /\ IF poolPromise.state = "fulfilled"
     THEN /\ pc' = [pc EXCEPT ![c] = "getConnection"]
          /\ pool' = [pool EXCEPT ![c] = poolPromise.id]
          /\ UNCHANGED <<config, poolPromise, createPoolCalls, conn, fn, stmt, path,
                         connection, error, result, trace, effect>>
     ELSE Fail(c, "E_createPool", <<>>)

\* `connection = await pool.getConnection()`.
GetConnection(c) ==
  /\ pc[c] = "getConnection"
  /\ \/ \E k \in Available(dbType, conn) :
          /\ connection' = [connection EXCEPT ![c] = k]
          /\ conn' = acquire(dbType, conn, k, c)
          /\ trace' = [trace EXCEPT ![c] = @ \o <<Ev("getConnection", TRUE)>>]
          /\ pc' = [pc EXCEPT ![c] =
                      CASE path[c] = "q" -> "q_query"
                        [] path[c] = "w" -> "w_begin"
                        [] OTHER -> IF shouldUseReadOnly THEN "r_setReadOnly" ELSE "r_begin"]
          /\ UNCHANGED <<config, poolPromise, createPoolCalls, fn, stmt, path, pool,
                         error, result, effect, budget>>
     \/ /\ FALSE \in Outcomes(CanFail(dbType, "getConnection", IdleConnection))
        /\ Spend(FALSE)
        /\ Fail(c, "E_getConnection", <<Ev("getConnection", FALSE)>>)

\* What a statement and the normalization of its result leave in the trace,
\* and the error caught when one of them failed.
QueryEvents(ok, nok) ==
  IF ok THEN <<Ev("query", TRUE), Ev("normalizeResult", nok)>>
  ELSE <<Ev("query", FALSE)>>

QueryError(ok) == IF ok THEN "E_normalizeResult" ELSE "E_query"

\* The text of a statement, as far as the backend's transaction is concerned:
\* a statement that reads or writes data, or one that ends the transaction.
SqlTexts == {"SELECT", "INSERT", "COMMIT", "ROLLBACK"}

\* The statements the callers of the engine submit are data statements.
Sql(s) == IF s.kinds = {"select"} THEN "SELECT" ELSE "INSERT"

\* connection.query(sql): the connection after the statement ran.  The text is
\* handed to the backend as it is; a COMMIT or ROLLBACK among it ends the open
\* transaction like the connection's own commit and rollback, and leaves the
\* connection's bookkeeping alone.
query(t, k, sql, ok) ==
  IF ok /\ sql \in {"COMMIT", "ROLLBACK"} THEN [k EXCEPT !.txOpen = FALSE] ELSE k

\* The connection table after call c's operation left its connection as k2.
With(c, k2) == [conn EXCEPT ![connection[c]] = k2]

Mine(c) == conn[connection[c]]

\* ------------------------------------------------------------ executeQuery
QQuery(c) ==
  /\ pc[c] = "q_query"
  /\ \E ok \in Outcomes(TRUE) :
       /\ Spend(ok)
       /\ Return(c, IF ok THEN Value ELSE Thrown("E_query"),
                 With(c, query(dbType, Mine(c), Sql(stmt[c]), ok)), <<Ev("query", ok)>>)

\* ------------------------------------------------------- executeWriteQuery
WBegin(c) ==
  /\ pc[c] = "w_begin"
  /\ \E ok \in Outcomes(CanFail(dbType, "beginTransaction", Mine(c))) :
       LET cn == With(c, beginTransaction(dbType, Mine(c), ok))
           ev == <<Ev("beginTransaction", ok)>>
       IN /\ Spend(ok)
          /\ IF ok THEN Goto(c, "w_query", cn, ev, "none")
             ELSE Return(c, Envelope(TRUE, "Database connection error",
                                     "E_beginTransaction", ""), cn, ev)

\* The statement, then adapter.normalizeResult on what it returned.
WQuery(c) ==
  /\ pc[c] = "w_query"
  /\ \E ok \in Outcomes(TRUE), nok \in Outcomes(TRUE) :
       LET cn == With(c, query(dbType, Mine(c), Sql(stmt[c]), ok))
           ev == QueryEvents(ok, nok)
       IN /\ ok \/ nok
          /\ Spend(ok /\ nok)
          /\ IF ok /\ nok THEN Goto(c, "w_commit", cn, ev, "none")
             ELSE Goto(c, "w_rollback", cn, ev, QueryError(ok))

WCommit(c) ==
  /\ pc[c] = "w_commit"
  /\ \E ok \in Outcomes(CanFail(dbType, "commit", Mine(c))) :
       LET cn == With(c, commit(dbType, Mine(c), ok))
           ev == <<Ev("commit", ok)>>
       IN /\ Spend(ok)
          /\ IF ~ok THEN Goto(c, "w_rollback", cn, ev, "E_commit")
             ELSE IF ~getQueryTypes(stmt[c]).ok
             THEN Goto(c, "w_rollback", cn, ev, "E_getQueryTypes")
             ELSE Return(c, Envelope(FALSE, WriteSummary(getQueryTypes(stmt[c]).kinds),
                                     "none", SchemaName(stmt[c].schema)), cn, ev)

\* The inner catch, entered when the statement, the normalization, the commit
\* or the classification after the commit failed: rollback, then the error
\* envelope; a failing rollback lands in the outer catch.
WRollback(c) ==
  /\ pc[c] = "w_rollback"
  /\ \E ok \in Outcomes(CanFail(dbType, "rollback", Mine(c))) :
       LET cn == With(c, rollback(dbType, Mine(c), ok))
           ev == <<Ev("rollback", ok)>>
       IN /\ Spend(ok)
          /\ IF ok
             THEN Return(c, Envelope(TRUE, "Error executing write operation",
                                     error[c], ""), cn, ev)
             ELSE Return(c, Envelope(TRUE, "Database connection error",
                                     "E_rollback", ""), cn, ev)

\* ---------------------------------------- executeReadOnlyQuery, read path
RSetReadOnly(c) ==
  /\ pc[c] = "r_setReadOnly"
  /\ \E ok \in Outcomes(CanFail(dbType, "setReadOnly", Mine(c))) :
       LET cn == With(c, setReadOnly(dbType, Mine(c), ok))
           ev == <<Ev("setReadOnly", ok)>>
       IN /\ Spend(ok)
          /\ IF ok THEN Goto(c, "r_begin", cn, ev, "none")
             ELSE Goto(c, "r_rollback3", cn, ev, "E_setReadOnly")

RBegin(c) ==
  /\ pc[c] = "r_begin"
  /\ \E ok \in Outcomes(CanFail(dbType, "beginTransaction", Mine(c))) :
       LET cn == With(c, beginTransaction(dbType, Mine(c), ok))
           ev == <<Ev("beginTransaction", ok)>>
       IN /\ Spend(ok)
          /\ IF ok THEN Goto(c, "r_query", cn, ev, "none")
             ELSE Goto(c, "r_rollback3", cn, ev, "E_beginTransaction")

RQuery(c) ==
  /\ pc[c] = "r_query"
  /\ \E ok \in Outcomes(TRUE), nok \in Outcomes(TRUE) :
       LET cn == With(c, query(dbType, Mine(c), Sql(stmt[c]), ok))
           ev == QueryEvents(ok, nok)
       IN /\ ok \/ nok
          /\ Spend(ok /\ nok)
          /\ IF ok /\ nok THEN Goto(c, "r_rollback1", cn, ev, "none")
             ELSE Goto(c, "r_rollback2", cn, ev, QueryError(ok))

ReadSuccess == Envelope(FALSE, "rows", "none", "")

endReadTransactionByCommit(t, k, ok) == [op |-> "commit", conn |-> commit(t, k, ok)]

\* How the read path ends its transaction after the statement succeeded.
endReadTransaction(t, k, ok) == [op |-> "rollback", conn |-> rollback(t, k, ok)]

RRollback1(c) ==
  /\ pc[c] = "r_rollback1"
  /\ \E ok \in Outcomes(CanFail(dbType, "rollback", Mine(c))) :
       LET e == endReadTransaction(dbType, Mine(c), ok)
           cn == With(c, e.conn)
           ev == <<Ev(e.op, ok)>>
       IN /\ Spend(ok)
          /\ IF ~ok THEN Goto(c, "r_rollback2", cn, ev, "E_rollback")
             ELSE IF shouldUseReadOnly THEN Goto(c, "r_unset1", cn, ev, "none")
             ELSE Return(c, ReadSuccess, cn, ev)

RUnset1(c) ==
  /\ pc[c] = "r_unset1"
  /\ \E ok \in Outcomes(CanFail(dbType, "unsetReadOnly", Mine(c))) :
       LET cn == With(c, unsetReadOnly(dbType, Mine(c), ok))
           ev == <<Ev("unsetReadOnly", ok)>>
       IN /\ Spend(ok)
          /\ IF ok THEN Return(c, ReadSuccess, cn, ev)
             ELSE Goto(c, "r_rollback2", cn, ev, "E_unsetReadOnly")

\* The inner catch: rollback, then rethrow; a failing rollback throws its own
\* error instead.
RRollback2(c) ==
  /\ pc[c] = "r_rollback2"
  /\ \E ok \in Outcomes(CanFail(dbType, "rollback", Mine(c))) :
       LET cn == With(c, rollback(dbType, Mine(c), ok))
           ev == <<Ev("rollback", ok)>>
       IN /\ Spend(ok)
          /\ Goto(c, "r_rollback3", cn, ev, IF ok THEN error[c] ELSE "E_rollback")

\* The outer catch with a connection: rollback, unsetReadOnly when the mode is
\* in use, both inside a try that swallows their errors; then rethrow.
RRollback3(c) ==
  /\ pc[c] = "r_rollback3"
  /\ \E ok \in Outcomes(CanFail(dbType, "rollback", Mine(c))) :
       LET cn == With(c, rollback(dbType, Mine(c), ok))
           ev == <<Ev("rollback", ok)>>
       IN /\ Spend(ok)
          /\ IF ok /\ shouldUseReadOnly THEN Goto(c, "r_unset2", cn, ev, error[c])
             ELSE Return(c, Thrown(error[c]), cn, ev)

RUnset2(c) ==
  /\ pc[c] = "r_unset2"
  /\ \E ok \in Outcomes(CanFail(dbType, "unsetReadOnly", Mine(c))) :
       /\ Spend(ok)
       /\ Return(c, Thrown(error[c]), With(c, unsetReadOnly(dbType, Mine(c), ok)),
                 <<Ev("unsetReadOnly", ok)>>)

\* ------------------------------------------------------------ specifications
Step(c) ==
  \/ Enter(c) \/ Decide(c) \/ AwaitPool(c) \/ GetConnection(c)
  \/ QQuery(c)
  \/ WBegin(c) \/ WQuery(c) \/ WCommit(c) \/ WRollback(c)
  \/ RSetReadOnly(c) \/ RBegin(c) \/ RQuery(c) \/ RRollback1(c) \/ RUnset1(c)
  \/ RRollback2(c) \/ RRollback3(c) \/ RUnset2(c)

Next == LoadModule \/ \E c \in Calls : StartSeq(c) \/ Collect(c) \/ Step(c)

Spec == Init /\ [][Next]_vars

\* The concurrent workload runs on one pooled backend and on SQLite, with the
\* permissive policy.
Permissive(t) ==
  [dbType |-> t, readOnlyMode |-> FALSE, disableReadOnlyTx |-> FALSE,
   globalAllow |-> AllOps(TRUE), schemaPerm |-> NoOverride,
   isMultiDbMode |-> FALSE, multiDbWriteMode |-> FALSE]

InitConc ==
  /\ dbType \in {"mysql", "sqlite"}
  /\ env = EnvFor(Permissive(dbType))
  /\ database = getConnectionConfig(dbType, env).database
  /\ readOnlyMode = FALSE
  /\ disableReadOnlyTx = FALSE
  /\ globalAllow = AllOps(TRUE)
  /\ schemaPerm = NoOverride
  /\ isMultiDbMode = FALSE
  /\ multiDbWriteMode = FALSE
  /\ phase = "configured"
  /\ adapter = NoAdapter
  /\ Quiet
  /\ budget = MaxConcFaults

\* The adapter's normalizeResult is called with some value (one value is
\* followed at a time).
NormalizeResult(raw) ==
  /\ phase = "loaded"
  /\ rawResult = NoRaw
  /\ rawResult' = raw
  /\ normalized' = normalizeResult(adapter, raw)
  /\ response' = NoResponse
  /\ UNCHANGED <<env, phase, adapter, database,
                 dbType, readOnlyMode, disableReadOnlyTx, globalAllow, schemaPerm,
                 isMultiDbMode, multiDbWriteMode,
                 poolPromise, createPoolCalls, conn, pc, fn, stmt, path, pool,
                 connection, error, result, trace, effect, budget>>

\* executeWriteQuery formats its response from the normalized result, the
\* statement's classification and its schema.
FormatResponse(kinds, schema) ==
  /\ phase = "loaded"
  /\ rawResult # NoRaw
  /\ ~normalized.threw
  /\ response = NoResponse
  /\ response' = [kinds |-> kinds, schema |-> schema,
                  text |-> responseText(kinds, schema, normalized)]
  /\ UNCHANGED <<env, phase, adapter, database, rawResult, normalized,
                 dbType, readOnlyMode, disableReadOnlyTx, globalAllow, schemaPerm,
                 isMultiDbMode, multiDbWriteMode,
                 poolPromise, createPoolCalls, conn, pc, fn, stmt, path, pool,
                 connection, error, result, trace, effect, budget>>

NextConc == LoadModule \/ \E c \in Calls : StartConc(c) \/ Step(c)

SpecConc == InitConc /\ [][NextConc]_vars

\* The adapters on their own: the module is loaded for one of the three
\* backends, and normalizeResult and the response formatting are applied to
\* every value offered.
InitAdapter ==
  /\ \E t \in DatabaseTypes :
       /\ dbType = t
       /\ env = EnvFor(Permissive(t))
       /\ database = getConnectionConfig(t, EnvFor(Permissive(t))).database
       /\ adapter = createAdapter(t).type
  /\ readOnlyMode = FALSE
  /\ disableReadOnlyTx = FALSE
  /\ globalAllow = AllOps(TRUE)
  /\ schemaPerm = NoOverride
  /\ isMultiDbMode = FALSE
  /\ multiDbWriteMode = FALSE
  /\ phase = "loaded"
  /\ Quiet
  /\ budget = 0

NextAdapter ==
  \/ \E raw \in RawResults : NormalizeResult(raw)
  \/ \E kinds \in KindSets, schema \in Schemas : FormatResponse(kinds, schema)

SpecAdapter == InitAdapter /\ [][NextAdapter]_vars

\* The configuration on its own: the environment is any of Environments, and
\* the configuration module reads it.
InitConfig ==
  /\ env \in Environments
  /\ phase = "start"
  /\ adapter = NoAdapter
  /\ database = Undefined
  /\ dbType = Undefined
  /\ readOnlyMode = FALSE
  /\ disableReadOnlyTx = FALSE
  /\ globalAllow = AllOps(FALSE)
  /\ schemaPerm = NoOverride
  /\ isMultiDbMode = FALSE
  /\ multiDbWriteMode = FALSE
  /\ Quiet
  /\ budget = 0

\* The configuration module is evaluated; the permission variables are unset.
LoadConfig ==
  /\ phase = "start"
  /\ phase' = "configured"
  /\ dbType' = DB_TYPE(env)
  /\ isMultiDbMode' = isMultiDbModeOf(DB_TYPE(env), env)
  /\ database' = getConnectionConfig(DB_TYPE(env), env).database
  /\ UNCHANGED <<env, adapter, rawResult, normalized, response,
                 readOnlyMode, disableReadOnlyTx, globalAllow, schemaPerm,
                 multiDbWriteMode,
                 poolPromise, createPoolCalls, conn, pc, fn, stmt, path, pool,
                 connection, error, result, trace, effect, budget>>

NextConfig == LoadConfig \/ LoadModule

SpecConfig == InitConfig /\ [][NextConfig]_vars


\* SQLiteConnection on its own: a caller holding the connection calls its four
\* methods in any order, at most MaxOps times, with any of SqlTexts.
InitConnection ==
  /\ dbType = "sqlite"
  /\ env = EnvFor(Permissive("sqlite"))
  /\ database = getConnectionConfig("sqlite", EnvFor(Permissive("sqlite"))).database
  /\ adapter = createAdapter("sqlite").type
  /\ readOnlyMode = FALSE
  /\ disableReadOnlyTx = FALSE
  /\ globalAllow = AllOps(TRUE)
  /\ schemaPerm = NoOverride
  /\ isMultiDbMode = FALSE
  /\ multiDbWriteMode = FALSE
  /\ phase = "loaded"
  /\ Quiet
  /\ budget = 0

Methods == {"beginTransaction", "commit", "rollback", "query"}

MethodCalls == Cardinality({i \in DOMAIN trace[1] : trace[1][i].op \in Methods})

\* What the handle answers to a statement: SQLite refuses a BEGIN inside a
\* transaction and a COMMIT or ROLLBACK outside one; anything may fail.
Results(k, sql) ==
  IF (sql = "BEGIN" /\ k.txOpen) \/ (sql \in {"COMMIT", "ROLLBACK"} /\ ~k.txOpen)
  THEN {FALSE}
  ELSE BOOLEAN

\* One call of a method of the connection: the statement it issued, if any,
\* and the method's own completion go to the trace.
Called(k2, issued, op, ok) ==
  /\ conn' = [conn EXCEPT ![1] = k2]
  /\ trace' = [trace EXCEPT ![1] = @ \o issued \o <<Ev(op, ok)>>]
  /\ UNCHANGED <<config, poolPromise, createPoolCalls, pc, fn, stmt, path, pool,
                 connection, error, result, effect, budget>>

ConnBeginTransaction ==
  /\ MethodCalls < MaxOps
  /\ LET k == conn[1]
         issues == CanFail("sqlite", "beginTransaction", k)
     IN \E ok \in IF issues THEN Results(k, "BEGIN") ELSE {TRUE} :
          Called(beginTransaction("sqlite", k, ok),
                 IF issues THEN <<Ev("BEGIN", ok)>> ELSE <<>>, "beginTransaction", ok)

ConnCommit ==
  /\ MethodCalls < MaxOps
  /\ LET k == conn[1]
         issues == CanFail("sqlite", "commit", k)
     IN \E ok \in IF issues THEN Results(k, "COMMIT") ELSE {TRUE} :
          Called(commit("sqlite", k, ok),
                 IF issues THEN <<Ev("COMMIT", ok)>> ELSE <<>>, "commit", ok)

ConnRollback ==
  /\ MethodCalls < MaxOps
  /\ LET k == conn[1]
         issues == CanFail("sqlite", "rollback", k)
     IN \E ok \in IF issues THEN Results(k, "ROLLBACK") ELSE {TRUE} :
          Called(rollback("sqlite", k, ok),
                 IF issues THEN <<Ev("ROLLBACK", ok)>> ELSE <<>>, "rollback", ok)

ConnQuery(sql) ==
  /\ MethodCalls < MaxOps
  /\ \E ok \in Results(conn[1], sql) :
       Called(query("sqlite", conn[1], sql, ok), <<>>, "query", ok)

NextConnection ==
  \/ ConnBeginTransaction \/ ConnCommit \/ ConnRollback
  \/ \E sql \in SqlTexts : ConnQuery(sql)

SpecConnection == InitConnection /\ [][NextConnection]_vars

\* The concurrent workload under the scheduling the event loop and the pool
\* give: an awaited operation returns or fails, so a call that can take its
\* next step takes it, and a call waiting in pool.getConnection() gets a
\* connection if connections keep coming back.
Fairness ==
  \A c \in Calls : WF_vars(Step(c)) /\ SF_vars(GetConnection(c))

\* The calls made while the pool is contended: the first caller reads, through
\* executeQuery or executeReadOnlyQuery, the second writes, and every further
\* caller goes through executeQuery.
LiveInvocations(c) ==
  {i \in ConcInvocations :
     CASE c = 1 -> i.fn # "executeWriteQuery"
       [] c = 2 -> i.fn = "executeWriteQuery"
       [] OTHER -> i.fn = "executeQuery"}

StartLive(c) ==
  /\ \A d \in Calls : d < c => pc[d] # "idle"
  /\ \E i \in LiveInvocations(c) : Invoke(c, i.fn, i.stmt)
  /\ UNCHANGED budget

NextLive == LoadModule \/ \E c \in Calls : StartLive(c) \/ Step(c)

SpecLive == InitConc /\ [][NextLive]_vars /\ Fairness

\* ------------------------------------------------------- reading the traces
Indices(c, op) == {i \in DOMAIN trace[c] : trace[c][i].op = op}

Invoked(c, op) == Cardinality(Indices(c, op))

Completed(c, op) == Cardinality({i \in Indices(c, op) : trace[c][i].ok})

Failed(c, op) == \E i \in Indices(c, op) : ~trace[c][i].ok

Finished(c) == pc[c] = "done"

\* Some write kind of the call's statement is denied for its schema.
SomeKindDenied(c) ==
  \E o \in Operations : /\ HasOp(stmt[c].kinds, o)
                        /\ ~isAllowedForSchema(o, stmt[c].schema)



\* ---------------------------------------------------------------------- C1
\* C1: a call of executeReadOnlyQuery whose statement contains a write kind
\* that the permission evaluator denies for the statement's schema invokes
\* neither getConnection nor beginTransaction: both counts stay zero for the
\* whole call.
C1_DeniedAcquiresNothing ==
  \A c \in Calls :
    (fn[c] = "executeReadOnlyQuery" /\ SomeKindDenied(c))
      => /\ Invoked(c, "getConnection") = 0
         /\ Invoked(c, "beginTransaction") = 0
         /\ connection[c] = 0

C1_Witness ==
  \E c \in Calls :
    /\ fn[c] = "executeReadOnlyQuery"
    /\ ~readOnlyMode
    /\ SomeKindDenied(c)
    /\ Finished(c)
    /\ result[c].isError
    /\ trace[c] = <<>>

\* ---------------------------------------------------------------------- C2
\* C2: a call on the read path never invokes commit; once its statement has
\* succeeded the call has invoked rollback by the time it finishes, and every
\* transaction-ending call it makes on any path is a rollback.
C2_ReadPathNeverCommits ==
  \A c \in Calls :
    path[c] = "r"
      => /\ Invoked(c, "commit") = 0
         /\ (Finished(c) /\ Completed(c, "query") = 1)
              => \E i \in Indices(c, "rollback") :
                   \A j \in Indices(c, "query") : j < i

C2_Witness ==
  \E c \in Calls :
    /\ path[c] = "r"
    /\ Finished(c)
    /\ Completed(c, "query") = 1
    /\ ~result[c].isError
    /\ Completed(c, "rollback") = 1

\* ---------------------------------------------------------------------- C3
\* C3: when a call of executeQuery, executeWriteQuery or executeReadOnlyQuery
\* has finished, it has invoked release exactly as often as getConnection
\* succeeded for it (once or never), on every path; so a pooled connection is
\* owned by no call once no call is in flight.
C3_AcquiredEqualsReleased ==
  /\ \A c \in Calls :
       Finished(c) => /\ Completed(c, "getConnection") = Invoked(c, "release")
                      /\ Invoked(c, "release") <= 1
  /\ (\A c \in Calls : pc[c] \in {"idle", "done"})
       => \A k \in Conns : conn[k].owner = 0

C3_Witness ==
  \E c \in Calls :
    /\ Finished(c)
    /\ path[c] = "r"
    /\ Failed(c, "rollback")
    /\ result[c].kind = "throw"
    /\ Completed(c, "getConnection") = 1
    /\ Invoked(c, "release") = 1


\* ---------------------------------------------------------------------- C4
\* C4: on the read path with read-only mode in use, a call that invoked
\* setReadOnly has, when it finishes, invoked unsetReadOnly exactly once, and
\* did so before release, whatever step failed.
C4_UnsetExactlyOnce ==
  \A c \in Calls :
    (path[c] = "r" /\ Finished(c) /\ Invoked(c, "setReadOnly") >= 1)
      => /\ Invoked(c, "unsetReadOnly") = 1
         /\ \A i \in Indices(c, "unsetReadOnly"), j \in Indices(c, "release") : i < j

\* ---------------------------------------------------------------------- C5
\* C5: every call of executeReadOnlyQuery ends by returning an envelope, never
\* by throwing; when a step below it failed the envelope has isError = true.
C5_AlwaysEnvelope ==
  \A c \in Calls :
    (fn[c] = "executeReadOnlyQuery" /\ Finished(c))
      => /\ result[c].kind = "envelope"
         /\ (\E i \in DOMAIN trace[c] : ~trace[c][i].ok) => result[c].isError

\* ---------------------------------------------------------------------- C6
\* C6: when the statement failed and a later rollback or unsetReadOnly failed
\* too, the error the caller gets (thrown by the read path, in the envelope of
\* the write path) is the statement's error, not the cleanup's.
C6_PrimaryErrorReported ==
  \A c \in Calls :
    ( /\ Finished(c)
      /\ path[c] \in {"r", "w"}
      /\ Failed(c, "query")
      /\ (Failed(c, "rollback") \/ Failed(c, "unsetReadOnly")) )
      => result[c].err = "E_query"

\* ---------------------------------------------------------------------- C7
\* C7: on the write path and the read path, a call whose beginTransaction
\* completed has had a commit or a rollback complete on the connection before
\* it invokes release.
C7_ClosedBeforeRelease ==
  \A c \in Calls :
    (path[c] \in {"r", "w"} /\ Completed(c, "beginTransaction") >= 1)
      => \A r \in Indices(c, "release") :
           \E b \in Indices(c, "beginTransaction"), e \in DOMAIN trace[c] :
             /\ trace[c][b].ok
             /\ b < e /\ e < r
             /\ trace[c][e].op \in {"commit", "rollback"}
             /\ trace[c][e].ok

\* ---------------------------------------------------------------------- C8
Rank(op) ==
  CASE op = "getConnection" -> 1
    [] op = "beginTransaction" -> 2
    [] op = "setReadOnly" -> 3
    [] op \in {"query", "normalizeResult"} -> 4
    [] op \in {"commit", "rollback"} -> 5
    [] op = "unsetReadOnly" -> 6
    [] OTHER -> 7

\* C8: the operations of one read-path call occur in the order acquire,
\* beginTransaction, setReadOnly, statement, rollback, unsetReadOnly, release:
\* no operation is invoked after one that comes later in that order.
C8_ReadPathOrder ==
  \A c \in Calls :
    path[c] = "r"
      => \A i, j \in DOMAIN trace[c] :
           i < j => Rank(trace[c][i].op) <= Rank(trace[c][j].op)

\* ---------------------------------------------------------------------- C9
\* Call c has begun a transaction and not yet invoked its commit or rollback.
InTransactionScope(c) ==
  \E b \in Indices(c, "beginTransaction") :
    /\ trace[c][b].ok
    /\ \A e \in DOMAIN trace[c] : e > b => trace[c][e].op \notin {"commit", "rollback"}

\* This step has call d run a statement or a transaction-control call.
UsesHandle(d) ==
  /\ Len(trace'[d]) > Len(trace[d])
  /\ trace'[d][Len(trace[d]) + 1].op
       \in {"beginTransaction", "query", "commit", "rollback"}

\* C9: on SQLite, while one call is between its beginTransaction and its own
\* commit or rollback, no other call runs a statement or a transaction-control
\* call on the shared handle.
C9_SharedHandleSerialized ==
  [][ dbType = "sqlite"
        => \A c, d \in Calls : (c # d /\ InTransactionScope(c)) => ~UsesHandle(d) ]_vars

\* --------------------------------------------------------------------- C10
\* C10: however many calls reach getPool before the promise has settled for
\* any of them, adapter.createPool is invoked at most once, and every call
\* that got a pool got the one pool of poolPromise.
C10_PoolCreatedOnce ==
  /\ createPoolCalls <= 1
  /\ \A c \in Calls : pool[c] # 0 => pool[c] = poolPromise.id
  /\ \A c, d \in Calls : (pool[c] # 0 /\ pool[d] # 0) => pool[c] = pool[d]

C10_Witness ==
  \E c, d \in Calls :
    /\ c # d
    /\ pc[c] = "awaitPool"
    /\ pool[d] # 0 /\ pc[d] # "done"
    /\ createPoolCalls = 1


\* --------------------------------------------------------------------- C11
\* C11: with DB_READ_ONLY_MODE on, a call of executeReadOnlyQuery whose
\* statement contains insert, update, delete, create, alter, drop or truncate
\* invokes no backend operation and holds no connection at any point, and
\* what it returns is the isError envelope naming DB_READ_ONLY_MODE, whatever
\* the global flags and the per-schema overrides say.
C11_ReadOnlyModeDeniesWrites ==
  \A c \in Calls :
    ( /\ readOnlyMode
      /\ fn[c] = "executeReadOnlyQuery"
      /\ stmt[c].kinds \cap WriteKinds # {} )
      => /\ trace[c] = <<>>
         /\ connection[c] = 0
         /\ path[c] = "none"
         /\ Finished(c) => /\ result[c].kind = "envelope"
                           /\ result[c].isError
                           /\ result[c].text = ReadOnlyModeText

\* A DDL statement that every permission flag allows is turned away.
C11_Witness ==
  \E c \in Calls :
    /\ readOnlyMode
    /\ fn[c] = "executeReadOnlyQuery"
    /\ stmt[c].kinds = {"create"}
    /\ globalAllow = AllOps(TRUE)
    /\ schemaPerm = NoOverride
    /\ Finished(c)
    /\ result[c].isError
    /\ result[c].text = ReadOnlyModeText
    /\ trace[c] = <<>>


\* --------------------------------------------------------------------- C12
\* Call c is a call of executeReadOnlyQuery in multi-database mode without
\* the MULTI_DB_WRITE_MODE opt-in, and its statement contains a write kind.
MultiDbWrite(c) ==
  /\ isMultiDbMode /\ ~multiDbWriteMode
  /\ fn[c] = "executeReadOnlyQuery"
  /\ stmt[c].kinds \cap WriteKinds # {}

Denied(c) ==
  /\ result[c].kind = "envelope"
  /\ result[c].isError
  /\ Invoked(c, "query") = 0

\* C12: in multi-database mode without the opt-in every statement containing
\* a write kind is denied (isError envelope, statement not run), whatever the
\* global flags and the per-schema overrides are.
C12_MultiDbDeniesEveryWrite ==
  \A c \in Calls :
    MultiDbWrite(c) => /\ Invoked(c, "query") = 0
                       /\ Finished(c) => Denied(c)

\* --------------------------------------------------------------------- C13
\* The statement of call c was turned away by a permission check.
PermissionDenied(c) ==
  /\ Finished(c)
  /\ result[c].kind = "envelope"
  /\ result[c].isError
  /\ trace[c] = <<>>
  /\ path[c] = "none"

OverrideElseGlobal(o, schema) ==
  IF schema # NoSchema /\ schemaPerm[schema][o] # "unset"
  THEN schemaPerm[schema][o] = "true"
  ELSE globalAllow[o]

\* C13: the decision for a write operation and a schema is the override set
\* for that schema and otherwise (also with no schema named) the global flag:
\* a finished call of executeReadOnlyQuery (DB_READ_ONLY_MODE off) was turned
\* away by the permission checks exactly when for some write operation of its
\* statement that value is false.
C13_OverrideElseGlobal ==
  \A c \in Calls :
    (fn[c] = "executeReadOnlyQuery" /\ ~readOnlyMode /\ Finished(c))
      => ( PermissionDenied(c)
             <=> \E o \in Operations :
                   HasOp(stmt[c].kinds, o) /\ ~OverrideElseGlobal(o, stmt[c].schema) )

\* Global insert off, override test_db:true: an insert into test_db runs.
C13_Witness ==
  \E c \in Calls :
    /\ fn[c] = "executeReadOnlyQuery"
    /\ ~readOnlyMode
    /\ ~globalAllow["insert"]
    /\ schemaPerm["test_db"]["insert"] = "true"
    /\ stmt[c].kinds = {"insert"} /\ stmt[c].schema = "test_db"
    /\ Finished(c)
    /\ path[c] = "w"
    /\ Completed(c, "query") = 1
    /\ ~result[c].isError


\* --------------------------------------------------------------------- C14
\* The write operations of call c's statement.
OpsOf(c) == {o \in Operations : HasOp(stmt[c].kinds, o)}

\* C14: a call of executeReadOnlyQuery whose statement has a write operation
\* that is denied for its schema never runs the statement and returns an
\* isError envelope, also when other write operations of the statement are
\* allowed.
C14_AnyDeniedKindDenies ==
  \A c \in Calls :
    ( /\ fn[c] = "executeReadOnlyQuery"
      /\ \E o \in OpsOf(c) : ~OverrideElseGlobal(o, stmt[c].schema) )
      => /\ Invoked(c, "query") = 0
         /\ Invoked(c, "commit") = 0
         /\ Finished(c) => Denied(c)

\* delete is allowed and DDL is not: DELETE ...; DROP ... is turned away.
C14_Witness ==
  \E c \in Calls :
    /\ fn[c] = "executeReadOnlyQuery"
    /\ ~readOnlyMode
    /\ stmt[c].kinds = {"delete", "drop"}
    /\ OverrideElseGlobal("delete", stmt[c].schema)
    /\ ~OverrideElseGlobal("ddl", stmt[c].schema)
    /\ Finished(c)
    /\ Denied(c)
    /\ result[c].text = DenialText("ddl")


\* --------------------------------------------------------------------- C15
\* Call c of executeReadOnlyQuery, its statement classified, has passed its
\* gate or returned from it.
Routed(c) ==
  /\ fn[c] = "executeReadOnlyQuery"
  /\ stmt[c].parses
  /\ pc[c] \notin {"idle", "entry"}

\* Call c got its pool and none of the operations it invoked failed.
NoFailure(c) == pool[c] # 0 /\ \A i \in DOMAIN trace[c] : trace[c][i].ok

Ops(c) == [i \in DOMAIN trace[c] |-> trace[c][i].op]

\* C15: executeReadOnlyQuery runs a statement through executeWriteQuery
\* exactly when it contains a write kind, every write operation it contains is
\* permitted and DB_READ_ONLY_MODE is off, and on the read path exactly when
\* it contains no write kind; an undisturbed call on the write path does
\* begin, statement, commit, and one on the read path ends in rollback.
C15_PathChoice ==
  \A c \in Calls :
    Routed(c)
      => /\ path[c] = "w"
              <=> /\ stmt[c].kinds \cap WriteKinds # {}
                  /\ \A o \in OpsOf(c) : OverrideElseGlobal(o, stmt[c].schema)
                  /\ ~readOnlyMode
         /\ path[c] = "r" <=> stmt[c].kinds \cap WriteKinds = {}
         /\ (Finished(c) /\ NoFailure(c) /\ path[c] = "w")
              => Ops(c) = <<"getConnection", "beginTransaction", "query",
                            "normalizeResult", "commit", "release">>
         /\ (Finished(c) /\ NoFailure(c) /\ path[c] = "r")
              => /\ Invoked(c, "commit") = 0
                 /\ Completed(c, "rollback") = 1

\* SELECT mixed with a permitted INSERT is committed on the write path.
C15_Witness ==
  \E c \in Calls :
    /\ fn[c] = "executeReadOnlyQuery"
    /\ stmt[c].kinds = {"select", "insert"}
    /\ path[c] = "w"
    /\ Finished(c)
    /\ Completed(c, "commit") = 1
    /\ ~result[c].isError


\* --------------------------------------------------------------------- C16
\* Something went wrong below call c: the pool promise rejected, an operation
\* it invoked failed, or its statement could not be classified.
SomethingFailed(c) ==
  \/ pool[c] = 0
  \/ \E i \in DOMAIN trace[c] : ~trace[c][i].ok
  \/ ~stmt[c].parses

\* C16: a finished call that ran executeWriteQuery returned an envelope, never
\* threw; the envelope has isError = true when pool creation, getConnection,
\* beginTransaction, the statement, normalizeResult, commit or rollback
\* failed; and when the statement failed the call invoked rollback after it
\* and before release.
C16_WriteNeverThrows ==
  \A c \in Calls :
    (path[c] = "w" /\ Finished(c))
      => /\ result[c].kind = "envelope"
         /\ SomethingFailed(c) => result[c].isError
         /\ \A q \in Indices(c, "query") :
              ~trace[c][q].ok
                => \E b \in Indices(c, "rollback"), r \in Indices(c, "release") :
                     q < b /\ b < r

\* The statement failed, the rollback went through, the envelope says so.
C16_Witness ==
  \E c \in Calls :
    /\ fn[c] = "executeWriteQuery"
    /\ path[c] = "w"
    /\ Finished(c)
    /\ Failed(c, "query")
    /\ Completed(c, "rollback") = 1
    /\ result[c].kind = "envelope"
    /\ result[c].isError
    /\ result[c].text = "Error executing write operation"
    /\ result[c].err = "E_query"


\* --------------------------------------------------------------------- C17
\* Call c runs executeWriteQuery and its beginTransaction succeeded.
WriteTransaction(c) == path[c] = "w" /\ Completed(c, "beginTransaction") = 1

\* The first two parts of C17: commit is invoked iff the statement ran and its
\* result was normalized, and rollback is invoked when the statement, the
\* normalization or the commit failed.
CommitIffNormalized(c) ==
  /\ Invoked(c, "commit") >= 1
       => Completed(c, "query") = 1 /\ Completed(c, "normalizeResult") = 1
  /\ Finished(c)
       => /\ (Completed(c, "query") = 1 /\ Completed(c, "normalizeResult") = 1)
               => Invoked(c, "commit") = 1
          /\ (Failed(c, "query") \/ Failed(c, "normalizeResult") \/ Failed(c, "commit"))
               => Invoked(c, "rollback") >= 1

NoRollbackAfterCommit(c) ==
  \A i \in Indices(c, "commit"), j \in Indices(c, "rollback") :
    trace[c][i].ok => j < i

\* C17: on the write path, after a successful beginTransaction, commit is
\* invoked iff the statement ran and its result was normalized without error,
\* rollback is invoked whenever the statement, the normalization or the commit
\* fails, and rollback is never invoked after a commit that succeeded.
C17_CommitXorRollback ==
  \A c \in Calls :
    WriteTransaction(c) => CommitIffNormalized(c) /\ NoRollbackAfterCommit(c)


\* --------------------------------------------------------------------- C18
\* C18: when the adapter is SQLite, or MYSQL_DISABLE_READ_ONLY_TRANSACTIONS is
\* set, a call on the read path invokes neither setReadOnly nor unsetReadOnly,
\* whether it succeeds or fails at any step, and when nothing fails it returns
\* the isError = false envelope with the rows.
C18_NoReadOnlyModeWhenUnsupported ==
  \A c \in Calls :
    (path[c] = "r" /\ (dbType = "sqlite" \/ disableReadOnlyTx))
      => /\ Invoked(c, "setReadOnly") = 0
         /\ Invoked(c, "unsetReadOnly") = 0
         /\ (Finished(c) /\ NoFailure(c))
              => /\ result[c].kind = "envelope"
                 /\ ~result[c].isError
                 /\ result[c].text = "rows"
                 /\ Ops(c) = <<"getConnection", "beginTransaction", "query",
                               "normalizeResult", "rollback", "release">>

\* A SELECT on SQLite that went through.
C18_Witness ==
  \E c \in Calls :
    /\ dbType = "sqlite"
    /\ path[c] = "r"
    /\ Finished(c)
    /\ Completed(c, "query") = 1
    /\ Completed(c, "rollback") = 1
    /\ ~result[c].isError
    /\ result[c].text = "rows"


\* --------------------------------------------------------------------- C19
\* Before its i-th operation call c had already closed its transaction: a
\* commit or rollback of its own succeeded and it has not begun another since.
ClosedBefore(c, i) ==
  \E e \in DOMAIN trace[c] :
    /\ e < i
    /\ trace[c][e].op \in {"commit", "rollback"}
    /\ trace[c][e].ok
    /\ \A b \in DOMAIN trace[c] : (e < b /\ b < i) => trace[c][b].op # "beginTransaction"

\* The transaction-control call that call c is about to make.
AboutTo(c) ==
  CASE pc[c] \in {"w_begin", "r_begin"} -> "beginTransaction"
    [] pc[c] = "w_commit" -> "commit"
    [] pc[c] \in {"w_rollback", "r_rollback1", "r_rollback2", "r_rollback3"} -> "rollback"
    [] OTHER -> "none"

\* C19: on every adapter a commit or rollback invoked when the transaction is
\* already closed is a no-op: it reaches no backend, so it raises no error,
\* and it leaves the connection as it was; a beginTransaction inside an open
\* transaction likewise.  So the second of two successive rollbacks of a call
\* never fails and changes nothing.
C19_DoubleCallsAreNoOps ==
  /\ \A c \in Calls : \A i \in DOMAIN trace[c] :
       (trace[c][i].op \in {"commit", "rollback"} /\ ClosedBefore(c, i))
         => trace[c][i].ok
  /\ \A c \in Calls :
       LET k == Mine(c)
       IN /\ (AboutTo(c) \in {"commit", "rollback"} /\ ~k.txOpen)
               => /\ ~CanFail(dbType, AboutTo(c), k)
                  /\ endTransaction(dbType, k, TRUE) = k
          /\ (AboutTo(c) = "beginTransaction" /\ k.txOpen)
               => /\ ~CanFail(dbType, "beginTransaction", k)
                  /\ beginTransaction(dbType, k, TRUE) = k


\* --------------------------------------------------------------------- C20
\* Call c has acquired a connection and not yet released it.
Holding(c) == Completed(c, "getConnection") = 1 /\ Invoked(c, "release") = 0

\* C20: a call acquires at most one connection and releases nothing it did
\* not acquire, so it never holds two; and on MySQL and PostgreSQL the
\* connection a call holds is its own until released: no other call in flight
\* holds it, so none runs anything on it.
C20_OneConnectionPerCall ==
  /\ \A c \in Calls :
       /\ Completed(c, "getConnection") <= 1
       /\ Invoked(c, "release") <= Completed(c, "getConnection")
       /\ Holding(c) <=> (connection[c] # 0 /\ pc[c] # "done")
  /\ dbType # "sqlite"
       => \A c \in Calls :
            Holding(c)
              => /\ conn[connection[c]].owner = c
                 /\ \A d \in Calls \ {c} : Holding(d) => connection[d] # connection[c]

\* One call holds the only connection of the pool while another waits in
\* getConnection.
C20_Witness ==
  \E c, d \in Calls :
    /\ c # d
    /\ dbType # "sqlite"
    /\ Holding(c)
    /\ Invoked(c, "beginTransaction") = 1
    /\ pc[d] = "getConnection"
    /\ connection[d] = 0


\* --------------------------------------------------------------------- C21
\* Call c is a call of executeReadOnlyQuery whose statement is classified
\* with no write kind.
ReadStatement(c) ==
  /\ fn[c] = "executeReadOnlyQuery"
  /\ stmt[c].parses
  /\ stmt[c].kinds \cap WriteKinds = {}

\* C21: a call of executeReadOnlyQuery whose statement has no write kind is
\* never turned away by a gate, whatever the global flags, the per-schema
\* overrides, DB_READ_ONLY_MODE and multi-database mode are: it takes the read
\* path, it never returns an isError envelope, and when nothing below it
\* fails it has acquired a connection and submitted the statement.
C21_ReadsAlwaysAttempted ==
  \A c \in Calls :
    (ReadStatement(c) /\ pc[c] \notin {"idle", "entry"})
      => /\ path[c] = "r"
         /\ ~(result[c].kind = "envelope" /\ result[c].isError)
         /\ (Finished(c) /\ NoFailure(c))
              => /\ Completed(c, "getConnection") = 1
                 /\ Completed(c, "query") = 1
                 /\ ~result[c].isError

\* Every flag denies, DB_READ_ONLY_MODE is on, no database is bound: a SELECT
\* still runs.
C21_Witness ==
  \E c \in Calls :
    /\ ReadStatement(c)
    /\ stmt[c].kinds = {"select"}
    /\ readOnlyMode
    /\ globalAllow = AllOps(FALSE)
    /\ isMultiDbMode /\ ~multiDbWriteMode
    /\ Finished(c)
    /\ Completed(c, "query") = 1
    /\ ~result[c].isError


\* --------------------------------------------------------------------- C22
\* C22: a call of executeReadOnlyQuery whose statement the classifier cannot
\* parse is not rejected at classification: what the caller gets is never the
\* classifier's error, and unless acquiring the pool or an operation before
\* the statement failed, the statement was submitted to the backend.
C22_UnclassifiedStillSubmitted ==
  \A c \in Calls :
    (fn[c] = "executeReadOnlyQuery" /\ ~stmt[c].parses /\ Finished(c))
      => /\ result[c].err # "E_getQueryTypes"
         /\ (poolPromise.state # "rejected" /\ \A i \in DOMAIN trace[c] : trace[c][i].ok)
              => Invoked(c, "query") = 1


\* --------------------------------------------------------------------- C23
\* Operation o of call c's statement is refused for the statement's schema.
Refused(c, o) == HasOp(stmt[c].kinds, o) /\ ~OverrideElseGlobal(o, stmt[c].schema)

\* The refused operation that comes first in insert, update, delete, DDL.
FirstRefused(c) ==
  IF Refused(c, "insert") THEN "insert"
  ELSE IF Refused(c, "update") THEN "update"
  ELSE IF Refused(c, "delete") THEN "delete"
  ELSE "ddl"

\* C23: a call of executeReadOnlyQuery that a permission check turns away
\* (DB_READ_ONLY_MODE off, some write operation of the statement refused)
\* returns an isError envelope and does not throw; the message is the one for
\* the first refused operation in the order insert, update, delete, DDL,
\* naming that operation and its SCHEMA_<OP>_PERMISSIONS variable, with the
\* statement's schema, or 'default' when it names none; the four messages
\* differ from each other.
C23_DenialNamesFirstDeniedKind ==
  /\ \A c \in Calls :
       ( /\ fn[c] = "executeReadOnlyQuery" /\ stmt[c].parses /\ ~readOnlyMode
         /\ Finished(c)
         /\ \E o \in Operations : Refused(c, o) )
         => /\ result[c].kind = "envelope"
            /\ result[c].isError
            /\ result[c].text = DenialText(FirstRefused(c))
            /\ result[c].schema
                 = IF stmt[c].schema = NoSchema THEN "default" ELSE stmt[c].schema
  /\ \A o1, o2 \in Operations : DenialText(o1) = DenialText(o2) => o1 = o2

\* INSERT and UPDATE are both refused, no schema named: the message is the
\* one for INSERT on 'default'.
C23_Witness ==
  \E c \in Calls :
    /\ fn[c] = "executeReadOnlyQuery"
    /\ ~readOnlyMode
    /\ stmt[c].kinds = {"insert", "update"}
    /\ stmt[c].schema = NoSchema
    /\ Refused(c, "insert") /\ Refused(c, "update")
    /\ Finished(c)
    /\ result[c].kind = "envelope"
    /\ result[c].text = DenialText("insert")
    /\ result[c].schema = "default"


\* --------------------------------------------------------------------- C24
\* Call c got no connection: the pool promise rejected for it or its
\* getConnection failed.
AcquisitionFailed(c) ==
  /\ Finished(c)
  /\ \/ Failed(c, "getConnection")
     \/ pool[c] = 0 /\ path[c] # "none"

\* One attempt to acquire, one submission of the statement.
AttemptsAtMostOnce(c) ==
  /\ Invoked(c, "getConnection") <= 1
  /\ Invoked(c, "query") <= 1

\* After a failed acquisition the call invokes nothing further.
NothingIssued(c) ==
  \A i \in DOMAIN trace[c] : trace[c][i].op = "getConnection"

\* C24: no call retries: it attempts getConnection at most once and submits
\* its statement at most once, whatever step fails; and a call of
\* executeWriteQuery or executeReadOnlyQuery whose acquisition failed returns
\* an isError envelope, having issued no statement, no transaction-control
\* call and no release.
C24_NoRetry ==
  \A c \in Calls :
    /\ AttemptsAtMostOnce(c)
    /\ (AcquisitionFailed(c) /\ fn[c] # "executeQuery")
         => /\ NothingIssued(c)
            /\ result[c].kind = "envelope"
            /\ result[c].isError


\* --------------------------------------------------------------------- C25
\* C25: createAdapter returns the adapter whose type is the identifier for
\* 'mysql', 'postgresql' and 'sqlite', and throws for every other identifier;
\* the module is loaded only when the adapter was created, so with an unknown
\* DB_TYPE the load fails and no call is ever served: no slot leaves idle, no
\* pool is created.
C25_UnknownIdentifierFailsAtLoad ==
  /\ \A id \in Identifiers :
       IF id \in {"mysql", "postgresql", "sqlite"}
       THEN ~createAdapter(id).threw /\ createAdapter(id).type = id
       ELSE createAdapter(id).threw
  /\ phase = "loaded" => dbType \in {"mysql", "postgresql", "sqlite"} /\ adapter = dbType
  /\ dbType \notin {"mysql", "postgresql", "sqlite"}
       => /\ phase \in {"configured", "failed"}
          /\ adapter = NoAdapter
          /\ \A c \in Calls : pc[c] = "idle"
          /\ createPoolCalls = 0
  /\ \A c \in Calls : pc[c] # "idle" => phase = "loaded" /\ adapter = dbType

\* DB_TYPE=oracle: the load of the engine module has failed.
C25_Witness ==
  /\ dbType = "oracle"
  /\ env.DB_TYPE = "oracle"
  /\ phase = "failed"
  /\ adapter = NoAdapter


\* --------------------------------------------------------------------- C26
\* The write acknowledgment of each backend: an object with one of the fields
\* its adapter reads the counts from (PostgreSQL: rowCount and no rows).
WriteAcknowledgment(t, r) ==
  /\ r.type = "object"
  /\ CASE t = "mysql" -> r.has \cap {"affectedRows", "insertId", "changedRows"} # {}
       [] t = "postgresql" -> "rowCount" \in r.has /\ r.items = <<>>
       [] OTHER -> r.has \cap {"changes", "lastInsertRowid"} # {}

\* C26: for each adapter, normalizeResult turns a write acknowledgment into
\* rows = [] with affectedRows, insertId and changedRows, an array of rows
\* into exactly {rows: the array}, and every other value (null, undefined, a
\* primitive, an object it does not recognize) into {rows: []}, and never
\* raises an error.
C26_NormalizeByShape ==
  rawResult # NoRaw
    => IF WriteAcknowledgment(adapter, rawResult)
       THEN /\ ~normalized.threw
            /\ normalized.rows = <<>>
            /\ normalized.has = {"affectedRows", "insertId", "changedRows"}
       ELSE IF rawResult.type = "array"
       THEN normalized = RowsOnly(rawResult.items)
       ELSE normalized = RowsOnly(<<>>)


\* --------------------------------------------------------------------- C27
\* C27: once the configuration is read, with DB_TYPE mysql or postgresql
\* isMultiDbMode is true exactly when mcpConfig.database.database is
\* undefined, whatever DB_NAME and MYSQL_DB / POSTGRESQL_DB are (set, empty
\* or unset), and with sqlite it is false.
C27_MultiDbIffNoDatabase ==
  phase # "start"
    => /\ dbType \in {"mysql", "postgresql"}
            => (isMultiDbMode <=> database = Undefined)
       /\ dbType = "sqlite" => ~isMultiDbMode


\* --------------------------------------------------------------------- C28
\* The number a summary reports for field f of the normalized result: the
\* field's value, or 0 when the result has no such field.
ValueOrZero(f) == IF f \in normalized.has THEN normalized[f] ELSE 0

\* C28: the response of the write path is chosen by the first kind of the
\* statement in the priority insert, update, delete, DDL (create, alter, drop,
\* truncate): insert reports affected rows and insert id, update affected and
\* changed rows, delete affected rows, DDL no number, each on the statement's
\* schema or 'default' when it names none, a missing number being 0; a
\* statement with none of these kinds gets the normalized rows as JSON.
C28_SummaryByPriority ==
  response # NoResponse
    => LET k == response.kinds
           t == response.text
           on == IF response.schema = NoSchema THEN "default" ELSE response.schema
       IN IF "insert" \in k
          THEN /\ t.summary = "Insert successful" /\ t.schema = on
               /\ t.affectedRows = ValueOrZero("affectedRows")
               /\ t.insertId = ValueOrZero("insertId")
          ELSE IF "update" \in k
          THEN /\ t.summary = "Update successful" /\ t.schema = on
               /\ t.affectedRows = ValueOrZero("affectedRows")
               /\ t.changedRows = ValueOrZero("changedRows")
          ELSE IF "delete" \in k
          THEN /\ t.summary = "Delete successful" /\ t.schema = on
               /\ t.affectedRows = ValueOrZero("affectedRows")
          ELSE IF k \cap {"create", "alter", "drop", "truncate"} # {}
          THEN t.summary = "DDL operation successful" /\ t.schema = on
          ELSE t.summary = "rows" /\ t.rows = normalized.rows

\* INSERT and UPDATE in one statement on PostgreSQL, no schema named: 'Insert
\* successful' on 'default', the row count reported, the insert id 0.
C28_Witness ==
  /\ adapter = "postgresql"
  /\ response.kinds = {"insert", "update"}
  /\ response.schema = NoSchema
  /\ response.text.summary = "Insert successful"
  /\ response.text.schema = "default"
  /\ "insertId" \notin normalized.has
  /\ response.text.insertId = 0
  /\ response.text.affectedRows = 3


\* --------------------------------------------------------------------- C29
\* C29: once poolPromise is rejected it stays the same rejected promise and
\* adapter.createPool is not invoked again: no call ever has a pool, and every
\* call that awaits getPool from then on ends there with the error of the
\* pool creation, having invoked no backend operation.
C29_RejectedPoolStaysCached ==
  [][ poolPromise.state = "rejected"
        => /\ poolPromise' = poolPromise
           /\ createPoolCalls' = createPoolCalls
           /\ createPoolCalls = 1
           /\ \A c \in Calls :
                /\ pool'[c] = 0
                /\ (pc[c] = "awaitPool" /\ pc'[c] # "awaitPool")
                     => /\ pc'[c] = "done"
                        /\ result'[c].isError
                        /\ result'[c].err = "E_createPool"
                        /\ trace'[c] = <<>> ]_vars

\* A call made after the pool creation had failed for an earlier one ends
\* with the same error; createPool was invoked once.
C29_Witness ==
  \E c \in Calls :
    /\ Finished(c)
    /\ result[c].err = "E_createPool"
    /\ budget = MaxFaults
    /\ poolPromise.state = "rejected"
    /\ createPoolCalls = 1


\* --------------------------------------------------------------------- C30
\* C30: on MySQL and PostgreSQL every connection in the pool that no call
\* holds is in read-write session mode, after any sequence of calls and
\* whatever step failed, and a call on the write path never runs on a
\* connection that is in read-only mode.
C30_ReleasedConnectionsReadWrite ==
  dbType \in {"mysql", "postgresql"}
    => /\ \A k \in Conns : conn[k].owner = 0 => ~conn[k].readOnly
       /\ \A c \in Calls :
            (path[c] = "w" /\ connection[c] # 0) => ~conn[connection[c]].readOnly


\* --------------------------------------------------------------------- C31
\* Before its i-th operation call c had invoked beginTransaction.
BeginInvokedBefore(c, i) ==
  \E b \in Indices(c, "beginTransaction") : b < i

\* Before its i-th operation a transaction had been begun for call c.
BegunBefore(c, i) ==
  \E b \in Indices(c, "beginTransaction") : b < i /\ trace[c][b].ok

\* Before its i-th operation a setReadOnly of call c had succeeded.
SetBefore(c, i) ==
  \E s \in Indices(c, "setReadOnly") : s < i /\ trace[c][s].ok

\* C31: a read-path call invokes rollback only after it has invoked
\* beginTransaction, and only on a connection for which a transaction was
\* begun; it invokes unsetReadOnly only after a setReadOnly of its own
\* succeeded.  This holds on every path, also when setReadOnly or
\* beginTransaction fails.
C31_CleanupOnlyWhatWasBegun ==
  \A c \in Calls :
    path[c] = "r"
      => /\ \A i \in Indices(c, "rollback") :
              BeginInvokedBefore(c, i) /\ BegunBefore(c, i)
         /\ \A i \in Indices(c, "unsetReadOnly") : SetBefore(c, i)


\* --------------------------------------------------------------------- C32
\* C32: when a call of executeWriteQuery returns an envelope with isError =
\* true, no commit completed during the call; once its commit has succeeded
\* the call returns an envelope with isError = false.
C32_ErrorImpliesNotCommitted ==
  \A c \in Calls :
    (path[c] = "w" /\ Finished(c))
      => /\ result[c].isError => Completed(c, "commit") = 0
         /\ Completed(c, "commit") >= 1 => ~result[c].isError


\* --------------------------------------------------------------------- C33
\* C33: on SQLite, with calls in flight together on the shared handle, a
\* statement run on the read path runs inside an open transaction and is
\* never committed: it does not take effect outside a transaction and no
\* commit of another call settles it; when nothing failed, it has been rolled
\* back by the time its call finishes.
C33_ReadStatementsRolledBack ==
  dbType = "sqlite"
    => \A c \in Calls :
         path[c] = "r"
           => /\ effect[c] \notin {"autocommit", "committed"}
              /\ (Finished(c) /\ Completed(c, "query") = 1 /\ NoFailure(c))
                   => effect[c] = "rolledBack"


\* --------------------------------------------------------------------- C34
\* The statement of call c took effect for good: it was committed, or it ran
\* outside a transaction.
Durable(c) == effect[c] \in {"committed", "autocommit"}

\* C34: on SQLite, with calls in flight together on the shared handle, a
\* write-path call that returns an envelope with isError = false has had its
\* statement take effect for good: no rollback of another call discarded it.
C34_SuccessMeansCommitted ==
  dbType = "sqlite"
    => \A c \in Calls :
         (path[c] = "w" /\ Finished(c) /\ ~result[c].isError) => Durable(c)


\* --------------------------------------------------------------------- C35
\* Call c owns no connection of the pool.
OwnsNothing(c) == \A k \in Conns : conn[k].owner # c

\* A call waiting for a connection holds none.
NoHoldAndWait ==
  \A c \in Calls : pc[c] = "getConnection" => connection[c] = 0 /\ OwnsNothing(c)

\* C35: whatever the pool size and the number of calls in flight, when every
\* awaited operation returns or fails and the pool serves its waiters fairly,
\* every call that was started finishes and has released its connection; a
\* call never waits for a connection while it holds one.
C35_NoPoolDeadlock ==
  /\ []NoHoldAndWait
  /\ \A c \in Calls : (pc[c] # "idle") ~> (Finished(c) /\ OwnsNothing(c))

\* A call waits for the pool's only connection while another call holds it.
C35_Witness ==
  \E c, d \in Calls :
    /\ c # d
    /\ dbType = "mysql"
    /\ pc[c] = "getConnection"
    /\ Available(dbType, conn) = {}
    /\ Holding(d)
    /\ pc[d] # "done"


\* --------------------------------------------------------------------- C36
\* The statements the connection's own methods issued on the handle.
IssuedTexts == {"BEGIN", "COMMIT", "ROLLBACK"}

\* What inTransaction must be after the first n entries of the trace when it
\* follows the statements the methods issued: true after a BEGIN that ran,
\* false after a COMMIT or ROLLBACK that ran, unchanged by one that threw.
FlagAfter(n) ==
  LET ran == {i \in 1..n : trace[1][i].op \in IssuedTexts /\ trace[1][i].ok}
  IN IF ran = {} THEN FALSE
     ELSE trace[1][CHOOSE i \in ran : \A j \in ran : j <= i].op = "BEGIN"

FlagFollowsStatements == conn[1].inTransaction = FlagAfter(Len(trace[1]))

\* commit and rollback issue nothing while the flag is false, beginTransaction
\* nothing while it is true.
GuardsIssueNothing ==
  \A i \in DOMAIN trace[1] :
    /\ trace[1][i].op \in {"COMMIT", "ROLLBACK"} => FlagAfter(i - 1)
    /\ trace[1][i].op = "BEGIN" => ~FlagAfter(i - 1)

\* C36: SQLiteConnection.inTransaction is true exactly when the transaction
\* that beginTransaction opened is still open on the handle; it changes only
\* after a BEGIN, COMMIT or ROLLBACK of the connection ran, and the guards
\* issue no statement.
C36_FlagMirrorsHandle ==
  /\ conn[1].inTransaction <=> conn[1].txOpen
  /\ FlagFollowsStatements
  /\ GuardsIssueNothing

=============================================================================
